---- MODULE Spec2Model ----
(***************************************************************************)
(* Resodo: the /contact-info endpoint (src/routers/contact.py), its rate   *)
(* limiter and validators (src/utils.py) and the two model-completion      *)
(* helpers (src/ollama_utils.py).                                          *)
(*                                                                         *)
(* Text is a sequence of one-character strings.  Time is time.time() in    *)
(* whole seconds.  Five specifications share the variables:                *)
(*   SpecRate     calls of check_rate_limit by any client at any time      *)
(*   Spec         requests running through get_contact_info                *)
(*   SpecWebsite  validate_website applied to every bounded input          *)
(*   SpecParse    extract_contact_info applied to every bounded completion *)
(*   SpecChunks   extract_contact_chunks applied to every bounded input    *)
(***************************************************************************)
EXTENDS Integers, Sequences, FiniteSets, TLC

VARIABLES
    rate_limit_store,  \* utils.rate_limit_store: client_ip -> list of timestamps
    now,               \* the wall clock read by time.time()
    log,               \* history: per client, every check_rate_limit call and its outcome
    req,               \* one record per request being handled (see IdleReq)
    website_in,        \* SpecWebsite: the argument of validate_website
    website_out,       \* SpecWebsite: what validate_website returned or raised
    completion_in,     \* SpecParse: the completion extract_contact_info works on
    contacts_out,      \* SpecParse: what extract_contact_info returned or raised
    chunk_in,          \* SpecChunks: the arguments of extract_contact_chunks
    chunk_out          \* SpecChunks: what extract_contact_chunks returned

\* the variables of the specifications of single functions
fn_vars == <<website_in, website_out, completion_in, contacts_out, chunk_in, chunk_out>>

vars == <<rate_limit_store, now, log, req, fn_vars>>

----------------------------------------------------------------------------
(* Bounds of the model *)

\* number of check_rate_limit calls in a behaviour of SpecRate
MaxCalls == 12
\* number of clock advances in a behaviour
MaxTicks == 3

\* length of the text after the scheme of a validate_website argument
MaxUrlLen == 5

Clients == {"10.0.0.1", "10.0.0.2"}

----------------------------------------------------------------------------
(* Text *)

Lower == {"a","b","c","d","e","f","g","h","i","j","k","l","m",
          "n","o","p","q","r","s","t","u","v","w","x","y","z"}
Upper == {"A","B","C","D","E","F","G","H","I","J","K","L","M",
          "N","O","P","Q","R","S","T","U","V","W","X","Y","Z"}
Alpha == Lower \cup Upper
Digit == {"0","1","2","3","4","5","6","7","8","9"}

\* s[i .. j], empty when j < i
Slice(s, i, j) == SubSeq(s, i, j)

\* str.startswith(prefix)
StartsWith(s, prefix) ==
    /\ Len(prefix) <= Len(s)
    /\ Slice(s, 1, Len(prefix)) = prefix

AllIn(s, class) == \A i \in DOMAIN s : s[i] \in class

\* the characters str.strip() removes and \s matches
Space == {" ", "\t", "\n", "\r"}

\* the characters \w matches
Word == Alpha \cup Digit \cup {"_"}

RECURSIVE LStrip(_)
LStrip(s) ==
    IF s # <<>> /\ s[1] \in Space THEN LStrip(Tail(s)) ELSE s

RECURSIVE RStrip(_)
RStrip(s) ==
    IF s # <<>> /\ s[Len(s)] \in Space THEN RStrip(Slice(s, 1, Len(s) - 1)) ELSE s

\* str.strip()
Strip(s) == RStrip(LStrip(s))

LowerSeq == <<"a","b","c","d","e","f","g","h","i","j","k","l","m",
              "n","o","p","q","r","s","t","u","v","w","x","y","z">>
UpperSeq == <<"A","B","C","D","E","F","G","H","I","J","K","L","M",
              "N","O","P","Q","R","S","T","U","V","W","X","Y","Z">>

\* the upper-case form of a lower-case letter; any other character unchanged
UpperOf(ch) ==
    IF ch \in Lower
    THEN UpperSeq[CHOOSE i \in 1..26 : LowerSeq[i] = ch]
    ELSE ch

----------------------------------------------------------------------------
(* Python's re: a backtracking matcher.  A pattern is a tree of records;    *)
(* Ends(re, s, i) lists, in the order the matcher tries them, the offsets   *)
(* at which a match of re that starts at offset i of s can end.             *)

In(chars)    == [op |-> "in", chars |-> chars]
NotIn(chars) == [op |-> "notin", chars |-> chars]
Ch(ch)       == In({ch})
\* "." without and with re.DOTALL
Dot          == NotIn({"\n"})
DotAll       == NotIn({})
Cat(items)   == [op |-> "cat", items |-> items]
Or(items)    == [op |-> "or", items |-> items]
\* r{lo,hi}; hi = -1: no upper limit; greedy or lazy (r{lo,hi}?)
Rep(r, lo, hi, greedy) == [op |-> "rep", item |-> r, lo |-> lo, hi |-> hi, greedy |-> greedy]
Opt(r)       == Rep(r, 0, 1, TRUE)
Plus(r)      == Rep(r, 1, -1, TRUE)
Star(r)      == Rep(r, 0, -1, TRUE)
LazyStar(r)  == Rep(r, 0, -1, FALSE)
WordB        == [op |-> "b"]
Bos          == [op |-> "bos"]
Eos          == [op |-> "eos"]
\* a literal text
Lit(text)    == Cat([i \in DOMAIN text |-> Ch(text[i])])
\* a lower-case literal text under re.IGNORECASE
LitI(text)   == Cat([i \in DOMAIN text |-> In({text[i], UpperOf(text[i])})])

IsWordAt(s, i) == i \in DOMAIN s /\ s[i] \in Word

RECURSIVE Ends(_, _, _)
RECURSIVE CatEnds(_, _, _, _)
RECURSIVE OrEnds(_, _, _, _)
RECURSIVE RepEnds(_, _, _, _)
RECURSIVE CatFrom(_, _, _, _, _)
RECURSIVE RepFrom(_, _, _, _, _)

Ends(re, s, i) ==
    CASE re.op = "in"    -> IF i < Len(s) /\ s[i + 1] \in re.chars THEN <<i + 1>> ELSE <<>>
      [] re.op = "notin" -> IF i < Len(s) /\ s[i + 1] \notin re.chars THEN <<i + 1>> ELSE <<>>
      [] re.op = "cat"   -> CatEnds(re.items, 1, s, i)
      [] re.op = "or"    -> OrEnds(re.items, 1, s, i)
      [] re.op = "rep"   -> RepEnds(re, 0, s, i)
      [] re.op = "b"     -> IF IsWordAt(s, i) # IsWordAt(s, i + 1) THEN <<i>> ELSE <<>>
      [] re.op = "bos"   -> IF i = 0 THEN <<i>> ELSE <<>>
      [] re.op = "eos"   -> IF i = Len(s) \/ (i = Len(s) - 1 /\ s[Len(s)] = "\n")
                            THEN <<i>> ELSE <<>>

\* items[k..] matched one after the other from offset i
CatEnds(items, k, s, i) ==
    IF k > Len(items) THEN <<i>>
    ELSE CatFrom(items, k, s, Ends(items[k], s, i), 1)

CatFrom(items, k, s, ends, n) ==
    IF n > Len(ends) THEN <<>>
    ELSE CatEnds(items, k + 1, s, ends[n]) \o CatFrom(items, k, s, ends, n + 1)

\* the alternatives items[k..] tried in order
OrEnds(items, k, s, i) ==
    IF k > Len(items) THEN <<>>
    ELSE Ends(items[k], s, i) \o OrEnds(items, k + 1, s, i)

\* re.item repeated, done times so far
RepEnds(re, done, s, i) ==
    LET stop == IF done >= re.lo THEN <<i>> ELSE <<>>
        more == IF re.hi = -1 \/ done < re.hi
                THEN RepFrom(re, done, s, Ends(re.item, s, i), 1)
                ELSE <<>>
    IN  IF re.greedy THEN more \o stop ELSE stop \o more

RepFrom(re, done, s, ends, n) ==
    IF n > Len(ends) THEN <<>>
    ELSE RepEnds(re, done + 1, s, ends[n]) \o RepFrom(re, done, s, ends, n + 1)

\* the offsets at which pattern.search(s) can start a match
MatchStarts(re, s) == {i \in 0..Len(s) : Ends(re, s, i) # <<>>}

\* pattern.search(s) is not None
Found(re, s) == MatchStarts(re, s) # {}

\* pattern.search(s): the leftmost match, ended where the matcher first succeeds
Search(re, s) ==
    LET start == CHOOSE i \in MatchStarts(re, s) : \A j \in MatchStarts(re, s) : i <= j
    IN  [start |-> start, end |-> Head(Ends(re, s, start))]

----------------------------------------------------------------------------
(* Request validation: src/utils.py *)

HTTP  == <<"h","t","t","p",":","/","/">>
HTTPS == <<"h","t","t","p","s",":","/","/">>

PORT_MAX_DIGITS == 5

\* ^(https?:\/\/)?([a-zA-Z0-9-]+\.)+[a-zA-Z]{2,}(:[0-9]{1,5})?(\/.*)?$
url_pattern ==
    Cat(<<Bos,
          Opt(Cat(<<Lit(<<"h","t","t","p">>), Opt(Ch("s")), Lit(<<":","/","/">>)>>)),
          Plus(Cat(<<Plus(In(Alpha \cup Digit \cup {"-"})), Ch(".")>>)),
          Rep(In(Alpha), 2, -1, TRUE),
          Opt(Cat(<<Ch(":"), Rep(In(Digit), 1, PORT_MAX_DIGITS, TRUE)>>)),
          Opt(Cat(<<Ch("/"), Star(Dot)>>)),
          Eos>>)

\* pattern.match(text): a match that starts at the start of the text
Matches(re, text) == Ends(re, text, 0) # <<>>

\* url.startswith(('http://', 'https://'))
HasScheme(url) == StartsWith(url, HTTP) \/ StartsWith(url, HTTPS)

\* what a validator hands back: the status of the HTTPException it raised
\* (0: none) with its detail, or the value it returned
Raise(status, detail) == [raised |-> status, detail |-> detail, value |-> <<>>]
Return(value) == [raised |-> 0, detail |-> "", value |-> value]

\* validate_website(url)
validate_website(url) ==
    IF ~Matches(url_pattern, url)
    THEN IF ~HasScheme(url)
         THEN IF ~Matches(url_pattern, HTTPS \o url)
              THEN Raise(422, "Invalid website URL format")
              ELSE Return(HTTPS \o url)
         ELSE Return(url)
    ELSE Return(url)

FILER_ITEM_MAX_CHARS == 1000

\* the loop of validate_filer_info from item k on, validated_info so far
RECURSIVE FilerInfoLoop(_, _, _)
FilerInfoLoop(info_list, k, validated_info) ==
    IF k > Len(info_list)
    THEN IF Len(validated_info) = 0
         THEN Raise(422, "No valid filer_info provided")
         ELSE Return(validated_info)
    ELSE LET item == info_list[k]
         IN  IF item = <<>> \/ Len(Strip(item)) = 0
             THEN FilerInfoLoop(info_list, k + 1, validated_info)
             ELSE IF Len(item) > FILER_ITEM_MAX_CHARS
                  THEN Raise(422, "filer_info item too long (max 1000 chars)")
                  ELSE FilerInfoLoop(info_list, k + 1, Append(validated_info, Strip(item)))

\* validate_filer_info(info_list)
validate_filer_info(info_list) == FilerInfoLoop(info_list, 1, <<>>)

\* suspicious_patterns, each compiled with re.IGNORECASE
suspicious_patterns ==
    <<Cat(<<LitI(<<"<","s","c","r","i","p","t">>), LazyStar(Dot), Ch(">")>>),
       LitI(<<"j","a","v","a","s","c","r","i","p","t",":">>),
       LitI(<<"v","b","s","c","r","i","p","t",":">>),
       LitI(<<"o","n","l","o","a","d","=">>),
       LitI(<<"o","n","e","r","r","o","r","=">>),
       LitI(<<"o","n","c","l","i","c","k","=">>),
       LitI(<<"e","v","a","l","(">>),
       LitI(<<"d","o","c","u","m","e","n","t",".">>),
       LitI(<<"w","i","n","d","o","w",".">>),
       LitI(<<"a","l","e","r","t","(">>),
       LitI(<<"p","r","o","m","p","t","(">>),
       LitI(<<"c","o","n","f","i","r","m","(">>),
       Cat(<<LitI(<<"<","i","f","r","a","m","e">>), LazyStar(Dot), Ch(">")>>),
       Cat(<<LitI(<<"<","o","b","j","e","c","t">>), LazyStar(Dot), Ch(">")>>),
       Cat(<<LitI(<<"<","e","m","b","e","d">>), LazyStar(Dot), Ch(">")>>)>>

\* validate_resolution(text)
validate_resolution(text) ==
    IF \E k \in DOMAIN suspicious_patterns : Found(suspicious_patterns[k], text)
    THEN Raise(422, "Resolution contains suspicious content")
    ELSE Return(Strip(text))

LEGAL_DOCUMENT_MIN_CHARS == 100

\* validate_legal_document(text); text is always a str here
validate_legal_document(text) ==
    IF text = <<>>
    THEN Raise(500, "Legal document generation failed")
    ELSE IF Len(Strip(text)) < LEGAL_DOCUMENT_MIN_CHARS
         THEN Raise(500, "Generated legal document is too short")
         ELSE Return(Strip(text))

----------------------------------------------------------------------------
(* Rate limiting: src/utils.py *)

RATE_LIMIT_WINDOW == 60
RATE_LIMIT_MAX_REQUESTS == 10

\* the clock is read every half window
TickStep == RATE_LIMIT_WINDOW \div 2

\* variant: nothing is ever dropped from the list
CleanOld_KeepAll(timestamps, current_time) ==
    timestamps

\* variant: the window test compares against half the window
CleanOld_HalfWindow(timestamps, current_time) ==
    SelectSeq(timestamps, LAMBDA ts : 2 * (current_time - ts) < RATE_LIMIT_WINDOW)

\* [ts for ts in rate_limit_store[client_ip] if current_time - ts < RATE_LIMIT_WINDOW]
CleanOld(timestamps, current_time) ==
    SelectSeq(timestamps, LAMBDA ts : current_time - ts < RATE_LIMIT_WINDOW)

\* variant: off by one, > instead of >=
LimitExceeded_OffByOne(timestamps) ==
    Len(timestamps) > RATE_LIMIT_MAX_REQUESTS

\* len(rate_limit_store[client_ip]) >= RATE_LIMIT_MAX_REQUESTS
LimitExceeded(timestamps) ==
    Len(timestamps) >= RATE_LIMIT_MAX_REQUESTS

\* variant: the timestamp is appended before the limit is tested, so a
\* rejected call records one too
check_rate_limit_AppendFirst(store, client_ip, current_time) ==
    LET cleaned == CleanOld(store[client_ip], current_time)
        after   == [store EXCEPT ![client_ip] = Append(cleaned, current_time)]
    IN  [raised |-> IF LimitExceeded(cleaned) THEN 429 ELSE 0, store |-> after]

\* check_rate_limit(request): the store after the call and the HTTPException
\* status it raised (0: it returned True)
check_rate_limit(store, client_ip, current_time) ==
    LET cleaned == CleanOld(store[client_ip], current_time)
    IN  IF LimitExceeded(cleaned)
        THEN [raised |-> 429,
              store  |-> [store EXCEPT ![client_ip] = cleaned]]
        ELSE [raised |-> 0,
              store  |-> [store EXCEPT ![client_ip] = Append(cleaned, current_time)]]

----------------------------------------------------------------------------
(* Contact window: src/utils.py *)

\* \b[A-Za-z0-9._%+-]+@[A-Za-z0-9.-]+\.[A-Za-z]{2,}\b
email_pattern ==
    Cat(<<WordB,
          Plus(In(Alpha \cup Digit \cup {".", "_", "%", "+", "-"})),
          Ch("@"),
          Plus(In(Alpha \cup Digit \cup {".", "-"})),
          Ch("."),
          Rep(In(Alpha), 2, -1, TRUE),
          WordB>>)

\* [-.\s]?
OptSep == Opt(In({"-", "."} \cup Space))

\* (\+\d{1,3}[-.\s]?)?\(?\d{3}\)?[-.\s]?\d{3}[-.\s]?\d{4}\b|\b\d{3}[-.\s]?\d{4}\b
phone_pattern ==
    Or(<<Cat(<<Opt(Cat(<<Ch("+"), Rep(In(Digit), 1, 3, TRUE), OptSep>>)),
               Opt(Ch("(")), Rep(In(Digit), 3, 3, TRUE), Opt(Ch(")")), OptSep,
               Rep(In(Digit), 3, 3, TRUE), OptSep,
               Rep(In(Digit), 4, 4, TRUE), WordB>>),
         Cat(<<WordB, Rep(In(Digit), 3, 3, TRUE), OptSep,
               Rep(In(Digit), 4, 4, TRUE), WordB>>)>>)

\* Optional[str]
None == [none |-> TRUE, text |-> <<>>]
Some(text) == [none |-> FALSE, text |-> text]

Max(a, b) == IF a >= b THEN a ELSE b
Min(a, b) == IF a <= b THEN a ELSE b

\* variant: the email match is the anchor whenever there is one
extract_contact_chunks_EmailFirst(page_text, context_chars) ==
    LET has_email == Found(email_pattern, page_text)
        has_phone == Found(phone_pattern, page_text)
        email_match == Search(email_pattern, page_text)
        phone_match == Search(phone_pattern, page_text)
        match == IF has_email THEN email_match ELSE phone_match
        start == Max(0, match.start - context_chars)
        end   == Min(Len(page_text), match.end + context_chars)
    IN  IF ~has_email /\ ~has_phone
        THEN None
        ELSE Some(Strip(Slice(page_text, start + 1, end)))

\* extract_contact_chunks(page_text, context_chars)
extract_contact_chunks(page_text, context_chars) ==
    LET has_email == Found(email_pattern, page_text)
        has_phone == Found(phone_pattern, page_text)
        email_match == Search(email_pattern, page_text)
        phone_match == Search(phone_pattern, page_text)
        match == IF has_email /\ has_phone
                 THEN IF email_match.start < phone_match.start
                      THEN email_match ELSE phone_match
                 ELSE IF has_email THEN email_match ELSE phone_match
        start == Max(0, match.start - context_chars)
        end   == Min(Len(page_text), match.end + context_chars)
    IN  IF ~has_email /\ ~has_phone
        THEN None
        ELSE Some(Strip(Slice(page_text, start + 1, end)))

----------------------------------------------------------------------------
(* json.loads.  A decoded value is [t, v]: a string ("str", its            *)
(* characters), a number ("num", its digits as written), true, false, null *)
(* and the like ("lit", the word), a list ("arr", its values) or a dict    *)
(* ("obj", its <<key, value>> pairs in the order read).                    *)

JStr(chars)  == [t |-> "str", v |-> chars]
JNum(chars)  == [t |-> "num", v |-> chars]
JLit(chars)  == [t |-> "lit", v |-> chars]
JArr(values) == [t |-> "arr", v |-> values]
JObj(pairs)  == [t |-> "obj", v |-> pairs]

\* the result of a decoding step: the value and the offset after it
Decoded(val, end) == [ok |-> TRUE, val |-> val, end |-> end]
Undecodable == [ok |-> FALSE, val |-> JLit(<<>>), end |-> 0]

RECURSIVE SkipSpace(_, _)
SkipSpace(s, i) ==
    IF i < Len(s) /\ s[i + 1] \in Space THEN SkipSpace(s, i + 1) ELSE i

\* (-?(?:0|[1-9]\d*))(\.\d+)?([eE][-+]?\d+)?
number_pattern ==
    Cat(<<Opt(Ch("-")),
          Or(<<Ch("0"), Cat(<<In(Digit \ {"0"}), Star(In(Digit))>>)>>),
          Opt(Cat(<<Ch("."), Plus(In(Digit))>>)),
          Opt(Cat(<<In({"e", "E"}), Opt(In({"-", "+"})), Plus(In(Digit))>>))>>)

\* the words the decoder accepts besides numbers
JsonWords ==
    <<<<"n","u","l","l">>,
      <<"t","r","u","e">>,
      <<"f","a","l","s","e">>,
      <<"N","a","N">>,
      <<"I","n","f","i","n","i","t","y">>,
      <<"-","I","n","f","i","n","i","t","y">>>>

\* the characters that may follow a backslash inside a string
Escapes == {"\"", "\\", "/", "b", "f", "n", "r", "t"}

\* a string body from offset i (after the opening quote) to its closing quote;
\* an escape is kept as written
RECURSIVE ScanString(_, _, _)
ScanString(s, i, chars) ==
    IF i >= Len(s) THEN Undecodable
    ELSE IF s[i + 1] = "\"" THEN Decoded(JStr(chars), i + 1)
    ELSE IF s[i + 1] = "\\"
         THEN IF i + 1 < Len(s) /\ s[i + 2] \in Escapes
              THEN ScanString(s, i + 2, chars \o <<s[i + 1], s[i + 2]>>)
              ELSE Undecodable
    ELSE IF s[i + 1] \in {"\n", "\t", "\r"} THEN Undecodable
    ELSE ScanString(s, i + 1, Append(chars, s[i + 1]))

RECURSIVE ScanValue(_, _)
RECURSIVE ScanArray(_, _, _)
RECURSIVE ScanObject(_, _, _)

\* one value that starts at offset i
ScanValue(s, i) ==
    IF i >= Len(s) THEN Undecodable
    ELSE IF s[i + 1] = "\"" THEN ScanString(s, i + 1, <<>>)
    ELSE IF s[i + 1] = "["
         THEN LET j == SkipSpace(s, i + 1)
              IN  IF j < Len(s) /\ s[j + 1] = "]"
                  THEN Decoded(JArr(<<>>), j + 1)
                  ELSE ScanArray(s, j, <<>>)
    ELSE IF s[i + 1] = "{"
         THEN LET j == SkipSpace(s, i + 1)
              IN  IF j < Len(s) /\ s[j + 1] = "}"
                  THEN Decoded(JObj(<<>>), j + 1)
                  ELSE ScanObject(s, j, <<>>)
    ELSE IF \E k \in DOMAIN JsonWords : StartsWith(Slice(s, i + 1, Len(s)), JsonWords[k])
         THEN LET k == CHOOSE n \in DOMAIN JsonWords :
                          StartsWith(Slice(s, i + 1, Len(s)), JsonWords[n])
              IN  Decoded(JLit(JsonWords[k]), i + Len(JsonWords[k]))
    ELSE LET ends == Ends(number_pattern, s, i)
         IN  IF ends = <<>> THEN Undecodable
             ELSE Decoded(JNum(Slice(s, i + 1, Head(ends))), Head(ends))

\* the values of a list from offset i on, values read so far
ScanArray(s, i, values) ==
    LET item == ScanValue(s, i)
        j    == SkipSpace(s, item.end)
    IN  IF ~item.ok \/ j >= Len(s) THEN Undecodable
        ELSE IF s[j + 1] = "]" THEN Decoded(JArr(Append(values, item.val)), j + 1)
        ELSE IF s[j + 1] = ","
             THEN ScanArray(s, SkipSpace(s, j + 1), Append(values, item.val))
             ELSE Undecodable

\* the pairs of a dict from offset i on, pairs read so far
ScanObject(s, i, pairs) ==
    IF i >= Len(s) \/ s[i + 1] # "\"" THEN Undecodable
    ELSE LET key   == ScanString(s, i + 1, <<>>)
             colon == SkipSpace(s, key.end)
         IN  IF ~key.ok \/ colon >= Len(s) \/ s[colon + 1] # ":" THEN Undecodable
             ELSE LET item == ScanValue(s, SkipSpace(s, colon + 1))
                      j    == SkipSpace(s, item.end)
                  IN  IF ~item.ok \/ j >= Len(s) THEN Undecodable
                      ELSE IF s[j + 1] = "}"
                           THEN Decoded(JObj(Append(pairs, <<key.val.v, item.val>>)), j + 1)
                      ELSE IF s[j + 1] = ","
                           THEN ScanObject(s, SkipSpace(s, j + 1),
                                           Append(pairs, <<key.val.v, item.val>>))
                           ELSE Undecodable

\* json.loads(text): the value, or ok = FALSE for json.JSONDecodeError
json_loads(text) ==
    LET top == ScanValue(text, SkipSpace(text, 0))
    IN  IF top.ok /\ SkipSpace(text, top.end) = Len(text) THEN top ELSE Undecodable

\* value['value'] of a decoded value: KeyError or TypeError (ok = FALSE)
\* unless it is a dict with that key; the last pair read with the key counts
GetItem(value, key) ==
    IF value.t = "obj" /\ \E k \in DOMAIN value.v : value.v[k][1] = key
    THEN LET k == CHOOSE n \in DOMAIN value.v :
                     /\ value.v[n][1] = key
                     /\ \A m \in DOMAIN value.v : value.v[m][1] = key => m <= n
         IN  [ok |-> TRUE, val |-> value.v[k][2]]
    ELSE [ok |-> FALSE, val |-> JLit(<<>>)]

----------------------------------------------------------------------------
(* Model completions: src/ollama_utils.py.  A completion is what the       *)
(* chat-completion call did: raised (with str(e) as message) or returned   *)
(* content.  The router calls both helpers with dev_mode left False.       *)

Raised(message) == [raised |-> TRUE, message |-> message, content |-> <<>>]
Content(text)   == [raised |-> FALSE, message |-> <<>>, content |-> text]

\* \[\s*{.*?}\s*\] with re.DOTALL
json_array_pattern ==
    Cat(<<Ch("["), Star(In(Space)), Ch("{"), LazyStar(DotAll), Ch("}"),
          Star(In(Space)), Ch("]")>>)

\* variant: the parser gives up on every text
extract_contact_info_Nothing(completion) == <<>>

\* extract_contact_info from the completion on: the list it returns
extract_contact_info(completion) ==
    LET response   == Strip(completion.content)
        json_match == Search(json_array_pattern, response)
        json_text  == Slice(response, json_match.start + 1, json_match.end)
        contact_data == json_loads(json_text)
    IN  IF completion.raised THEN <<>>
        ELSE IF response = <<>> THEN <<>>
        ELSE IF ~Found(json_array_pattern, response) THEN <<>>
        ELSE IF ~contact_data.ok THEN <<>>
        ELSE IF contact_data.val.t # "arr" THEN <<>>
        ELSE contact_data.val.v

DRAFT_ERROR_PREFIX == <<"E","r","r","o","r"," ","g","e","n","e","r","a","t","i","n","g"," ","l","e","g","a","l"," ","d","o","c","u","m","e","n","t"," ","w","i","t","h"," ","d","e","e","p","s","e","e","k",":"," ">>

\* legal_doc_creation from the completion on: the str it returns
legal_doc_creation(completion) ==
    IF completion.raised
    THEN DRAFT_ERROR_PREFIX \o completion.message
    ELSE Strip(completion.content)

----------------------------------------------------------------------------
(* The endpoint: src/routers/contact.py, get_contact_info.  The handler is  *)
(* a coroutine: it runs without interruption from its entry to              *)
(* "await find_contact_url(website)" and from there to its response; the    *)
(* handlers of other requests run while it waits for the crawl.             *)

\* the requests handled at the same time
Reqs == {"r1", "r2"}

\* website: str = Query(..., regex=...)
\* ^(https?:\/\/)?([a-zA-Z0-9-]+\.)+[a-zA-Z]{2,}(:[0-9]+)?(\/.*)?$
query_website_pattern ==
    Cat(<<Bos,
          Opt(Cat(<<Lit(<<"h","t","t","p">>), Opt(Ch("s")), Lit(<<":","/","/">>)>>)),
          Plus(Cat(<<Plus(In(Alpha \cup Digit \cup {"-"})), Ch(".")>>)),
          Rep(In(Alpha), 2, -1, TRUE),
          Opt(Cat(<<Ch(":"), Plus(In(Digit))>>)),
          Opt(Cat(<<Ch("/"), Star(Dot)>>)),
          Eos>>)

\* resolution: str = Query(..., min_length=10, max_length=5000)
RESOLUTION_MIN_CHARS == 10

\* the query parameters the framework lets through to the handler
Websites ==
    {w \in {<<"a",".","i","o">>,
            <<"a",".","i","o",":","1","2","3","4","5","6">>,
            <<"h","t","t","p",":","/","/","a",".","i","o",":","1","2","3","4","5","6">>,
            <<"a"," ","i","o">>} :
        Matches(query_website_pattern, w)}

FilerInfos ==
    {<<<<" "," ">>, <<" ","m","e"," ">>>>,
     <<<<" "," ">>>>,
     <<[i \in 1..(FILER_ITEM_MAX_CHARS + 1) |-> "x"]>>}

Resolutions ==
    {x \in {<<" ","p","a","y"," ","m","e"," ","b","a","c","k"," ">>,
            <<"<","S","C","R","I","P","T",">","p","a","y">>,
            <<"p","a","y">>} :
        Len(x) >= RESOLUTION_MIN_CHARS}

Respondents == {"Acme Corp"}
Filers == {"Jo Doe"}

\* a query that passes every validator
Plain == <<<<"a",".","i","o">>, <<<<" "," ">>, <<" ","m","e"," ">>>>, <<" ","p","a","y"," ","m","e"," ","b","a","c","k"," ">>>>

\* the queries sent: Plain, and Plain with one parameter changed
Queries ==
    {q \in Websites \X FilerInfos \X Resolutions :
        Cardinality({i \in 1..3 : q[i] # Plain[i]}) <= 1}

\* the clients that send queries to the endpoint
Callers == {"10.0.0.1"}

\* what find_contact_url did: raised, or returned results[-1].markdown
CrawlOutcomes ==
    {Raised(<<>>),
     Content(<<>>),
     Content(<<"n","o"," ","c","o","n","t","a","c","t">>),
     Content(<<"t","e","l"," ","5","5","5","-","1","2","3","4">>)}

\* what the contact-extraction completion did
ExtractCompletions ==
    {Raised(<<>>),
     Content(<<"n","o","n","e">>),
     Content(<<"[","{","\"","v","a","l","u","e","\"",":","\"","a","@","b",".","i","o","\"","}","]">>),
     Content(<<"[","{","\"","t","y","p","e","\"",":","\"","e","m","a","i","l","\"","}","]">>),
     Content(<<"[","{","\"","v","a","l","u","e","\"",":","\"","x","\"",",","}","]">>)}

\* what the drafting completion did
DraftCompletions ==
    {Raised(<<"C","o","n","n","e","c","t","i","o","n"," ","e","r","r","o","r",".">>),
     Raised(<<"E","r","r","o","r"," ","c","o","d","e",":"," ","4","0","1"," ","-"," ","{","'","e","r","r","o","r","'",":"," ","{","'","m","e","s","s","a","g","e","'",":"," ","'","A","u","t","h","e","n","t","i","c","a","t","i","o","n"," ","F","a","i","l","s","'","}","}">>),
     Content(<<>>),
     Content([i \in 1..(LEGAL_DOCUMENT_MIN_CHARS - 1) |-> "d"]),
     Content([i \in 1..LEGAL_DOCUMENT_MIN_CHARS |-> "d"])}

\* what the PDF stage did: tempfile.NamedTemporaryFile raised, doc.build
\* raised inside legal_doc_to_pdf, or the file was built
PdfOutcomes == {"tempfile raises", "build raises", "built"}

\* extract_contact_chunks(page_text, context_chars=1000)
CONTEXT_CHARS == 1000

\* a key a dict does not hold
Absent == "<absent>"

NoResponse == [kind |-> "none", status |-> 0, detail |-> "", body |-> <<>>]
\* raise HTTPException(status_code, detail)
HttpError(status, detail) ==
    [kind |-> "error", status |-> status, detail |-> detail, body |-> <<>>]
\* return a dict
JsonResponse(payload) ==
    [kind |-> "json", status |-> 200, detail |-> "", body |-> <<payload>>]
\* return FileResponse(path, filename, media_type='application/pdf')
PdfResponse ==
    [kind |-> "pdf", status |-> 200, detail |-> "", body |-> <<>>]

\* a request that has not arrived
\* query: the parameters as sent; website, filer_info, resolution: the
\* handler's variables of these names; recorded: the timestamps the rate-limit
\* check appended for this request; calls: the crawl, completion and PDF
\* calls made, in order; failed: the ones of them that raised
IdleReq ==
    [pc |-> "idle", client |-> "", respondent |-> "", filer |-> "",
     query |-> <<>>, website |-> <<>>, filer_info |-> <<>>, resolution |-> <<>>,
     recorded |-> 0, calls |-> <<>>, failed |-> {}, page_text |-> None,
     page_chunk |-> None, contacts |-> <<>>, resp |-> NoResponse]

\* the handler left with response resp
Done(q, resp) == [q EXCEPT !.pc = "done", !.resp = resp]

\* variant: the validators run before the rate-limit check
HandlerEntry_ValidateFirst(q, store, current_time) ==
    LET limit == check_rate_limit(store, q.client, current_time)
        w == validate_website(q.website)
        f == validate_filer_info(q.filer_info)
        x == validate_resolution(q.resolution)
        q1 == [q EXCEPT !.website = w.value]
        q2 == [q1 EXCEPT !.filer_info = f.value]
        q3 == [q2 EXCEPT !.resolution = x.value]
        q4 == [q3 EXCEPT !.recorded = Len(limit.store[q.client])
                                      - Len(CleanOld(store[q.client], current_time))]
    IN  IF w.raised # 0 THEN [store |-> store, req |-> Done(q, HttpError(w.raised, w.detail))]
        ELSE IF f.raised # 0 THEN [store |-> store, req |-> Done(q1, HttpError(f.raised, f.detail))]
        ELSE IF x.raised # 0 THEN [store |-> store, req |-> Done(q2, HttpError(x.raised, x.detail))]
        ELSE [store |-> limit.store,
              req |->
                 IF limit.raised # 0
                 THEN Done(q3, HttpError(429, "Rate limit exceeded. Maximum 10 requests per minute."))
                 ELSE [q4 EXCEPT !.pc = "crawl", !.calls = <<"crawl">>]]

\* the entry with the outcome of validate_resolution ignored
HandlerEntry_ResolutionUnchecked(q, store, current_time) ==
    LET limit == check_rate_limit(store, q.client, current_time)
        w == validate_website(q.website)
        f == validate_filer_info(q.filer_info)
        x == validate_resolution(q.resolution)
        q1 == [q EXCEPT !.recorded = Len(limit.store[q.client])
                                     - Len(CleanOld(store[q.client], current_time))]
        q2 == [q1 EXCEPT !.website = w.value]
        q3 == [q2 EXCEPT !.filer_info = f.value]
        q4 == [q3 EXCEPT !.resolution = x.value]
    IN  [store |-> limit.store,
         req |->
            IF limit.raised # 0
            THEN Done(q, HttpError(429, "Rate limit exceeded. Maximum 10 requests per minute."))
            ELSE IF w.raised # 0 THEN Done(q1, HttpError(w.raised, w.detail))
            ELSE IF f.raised # 0 THEN Done(q2, HttpError(f.raised, f.detail))
            ELSE [q4 EXCEPT !.pc = "crawl", !.calls = <<"crawl">>]]

\* lines 33-48: from the entry of the handler to the await of the crawl
HandlerEntry(q, store, current_time) ==
    LET limit == check_rate_limit(store, q.client, current_time)
        w == validate_website(q.website)
        f == validate_filer_info(q.filer_info)
        x == validate_resolution(q.resolution)
        q1 == [q EXCEPT !.recorded = Len(limit.store[q.client])
                                     - Len(CleanOld(store[q.client], current_time))]
        q2 == [q1 EXCEPT !.website = w.value]
        q3 == [q2 EXCEPT !.filer_info = f.value]
        q4 == [q3 EXCEPT !.resolution = x.value]
    IN  [store |-> limit.store,
         req |->
            IF limit.raised # 0
            THEN Done(q, HttpError(429, "Rate limit exceeded. Maximum 10 requests per minute."))
            ELSE IF w.raised # 0 THEN Done(q1, HttpError(w.raised, w.detail))
            ELSE IF f.raised # 0 THEN Done(q2, HttpError(f.raised, f.detail))
            ELSE IF x.raised # 0 THEN Done(q3, HttpError(x.raised, x.detail))
            ELSE [q4 EXCEPT !.pc = "crawl", !.calls = <<"crawl">>]]

\* the dict built at lines 52-61 and 69-77
Payload(q, contacts, message, current_time) ==
    [respondent |-> q.respondent, filer |-> q.filer, filer_info |-> q.filer_info,
     reason |-> q.resolution, website |-> q.website, contacts |-> contacts,
     message |-> message, pdf_error |-> Absent, timestamp |-> current_time]

\* lines 127-141: an exception that is not an HTTPException
Unexpected(q) ==
    Done(q, HttpError(500, "An unexpected error occurred. Please try again later."))

\* line 48: find_contact_url raised
CrawlFailed(q) == Unexpected([q EXCEPT !.failed = @ \cup {"crawl"}])

\* the test of line 50 never taken
NoPageText_Never(page_text) == FALSE

\* line 50: if not page_text
NoPageText(page_text) == page_text = <<>>

\* lines 51-61: the crawl returned nothing
EmptyCrawl(q, current_time) ==
    Done([q EXCEPT !.page_text = Some(<<>>)],
         JsonResponse(Payload(q, <<>>, "No contact information found", current_time)))

\* extract_contact_chunks and extract_contact_info over the texts they are
\* given here, computed once
page_chunk_of ==
    [page_text \in {crawl.content : crawl \in CrawlOutcomes} |->
        extract_contact_chunks(page_text, CONTEXT_CHARS)]
contacts_of ==
    [extraction \in ExtractCompletions |-> extract_contact_info(extraction)]

\* lines 63-67: the window is cut and the extraction completion is requested
Extracting(q, page_text, extraction) ==
    [q EXCEPT !.page_text = Some(page_text),
              !.page_chunk = page_chunk_of[page_text],
              !.contacts = contacts_of[extraction],
              !.calls = Append(@, "extract"),
              !.failed = IF extraction.raised THEN @ \cup {"extract"} ELSE @]

\* the test of line 82 always taken
HasContacts_Always(contacts) == TRUE

\* line 82: if contacts
HasContacts(contacts) == contacts # <<>>

\* line 125: return response_data
JsonOnly(q, response_data) == Done(q, JsonResponse(response_data))

\* the exception of the PDF stage left to the outer handler
PdfError_Unabsorbed(q, response_data, message) == Unexpected(q)

\* lines 120-123: except Exception as e: response_data['pdf_error'] = str(e)
PdfError(q, response_data, message) ==
    Done(q, JsonResponse([response_data EXCEPT !.pdf_error = message]))

\* lines 83-123: the PDF stage, entered with contacts not empty
PdfStage(q, response_data, draft, pdf) ==
    LET legal_document == legal_doc_creation(draft)
        validated == validate_legal_document(legal_document)
        drafted == [q EXCEPT !.calls = Append(@, "draft"),
                             !.failed = IF draft.raised THEN @ \cup {"draft"} ELSE @]
        composed == [drafted EXCEPT !.calls = Append(@, "pdf"),
                                    !.failed = IF pdf = "build raises" THEN @ \cup {"pdf"} ELSE @]
    IN  IF \E k \in DOMAIN response_data.contacts :
              ~GetItem(response_data.contacts[k], <<"v","a","l","u","e">>).ok
        THEN PdfError(q, response_data, "'value'")
        ELSE IF validated.raised # 0
        THEN Done(drafted, HttpError(validated.raised, validated.detail))
        ELSE IF pdf = "tempfile raises"
        THEN PdfError(drafted, response_data, "No space left on device")
        ELSE IF pdf = "build raises"
        THEN PdfError(composed, response_data, "Error generating PDF: build failed")
        ELSE Done(composed, PdfResponse)

\* a request arrives and its handler runs up to the crawl
Start(r) ==
    /\ req[r].pc = "idle"
    /\ \E client \in Callers, respondent \in Respondents, filer \in Filers,
          query \in Queries :
          LET q == [IdleReq EXCEPT !.client = client, !.respondent = respondent,
                                   !.filer = filer, !.query = query,
                                   !.website = query[1],
                                   !.filer_info = query[2], !.resolution = query[3]]
              out == HandlerEntry(q, rate_limit_store, now)
          IN  /\ rate_limit_store' = out.store
              /\ req' = [req EXCEPT ![r] = out.req]
    /\ UNCHANGED <<now, log, fn_vars>>

\* lines 48-141: the crawl returns and the handler runs to its response
Resume(r) ==
    /\ req[r].pc = "crawl"
    /\ \E crawl \in CrawlOutcomes :
          IF crawl.raised
          THEN req' = [req EXCEPT ![r] = CrawlFailed(req[r])]
          ELSE IF NoPageText(crawl.content)
          THEN req' = [req EXCEPT ![r] = EmptyCrawl(req[r], now)]
          ELSE \E extraction \in ExtractCompletions :
                  LET q == Extracting(req[r], crawl.content, extraction)
                      response_data == Payload(q, q.contacts, Absent, now)
                  IN  IF HasContacts(q.contacts)
                      THEN \E draft \in DraftCompletions, pdf \in PdfOutcomes :
                              req' = [req EXCEPT ![r] = PdfStage(q, response_data, draft, pdf)]
                      ELSE req' = [req EXCEPT ![r] = JsonOnly(q, response_data)]
    /\ UNCHANGED <<rate_limit_store, now, log, fn_vars>>

\* the response is sent
Finish(r) ==
    /\ req[r].pc = "done"
    /\ req' = [req EXCEPT ![r] = IdleReq]
    /\ UNCHANGED <<rate_limit_store, now, log, fn_vars>>

----------------------------------------------------------------------------
(* SpecRate: check_rate_limit called by any client at any time *)

RECURSIVE TotalCalls(_)
TotalCalls(cs) ==
    IF cs = {} THEN 0
    ELSE LET c == CHOOSE x \in cs : TRUE
         IN  Len(log[c]) + TotalCalls(cs \ {c})

InitStore == [c \in Clients |-> <<>>]

\* one call of check_rate_limit for client_ip at the current time
RateLimitCall(client_ip) ==
    /\ TotalCalls(Clients) < MaxCalls
    /\ LET r == check_rate_limit(rate_limit_store, client_ip, now)
       IN  /\ rate_limit_store' = r.store
           /\ log' = [log EXCEPT ![client_ip] =
                        Append(@, [t      |-> now,
                                   ok     |-> r.raised = 0,
                                   stored |-> Len(r.store[client_ip])])]
    /\ UNCHANGED <<now, req, fn_vars>>

\* time passes between calls
Tick ==
    /\ now + TickStep <= MaxTicks * TickStep
    /\ now' = now + TickStep
    /\ UNCHANGED <<rate_limit_store, log, req, fn_vars>>

\* validate_website has not been called
NotCalled == [raised |-> -1, detail |-> "", value |-> <<>>]

\* extract_contact_info and extract_contact_chunks are not under check
NoParseCall == completion_in = Content(<<>>) /\ contacts_out = NotCalled
NoChunksCall ==
    /\ chunk_in = [page_text |-> <<>>, context_chars |-> 0]
    /\ chunk_out = NotCalled

InitRate ==
    /\ rate_limit_store = InitStore
    /\ now = 0
    /\ log = [c \in Clients |-> <<>>]
    /\ req = [r \in Reqs |-> IdleReq]
    /\ website_in = <<>>
    /\ website_out = NotCalled
    /\ NoParseCall
    /\ NoChunksCall

NextRate ==
    \/ \E c \in Clients : RateLimitCall(c)
    \/ Tick

SpecRate == InitRate /\ [][NextRate]_vars

----------------------------------------------------------------------------
(* Claims about the rate limiter, checked under SpecRate *)

Last(s) == s[Len(s)]

\* C1: after any sequence of check_rate_limit calls by any clients at any
\* non-decreasing times, the list stored for each client holds at most
\* RATE_LIMIT_MAX_REQUESTS (10) timestamps.
C1_StoredAtMostTen ==
    \A c \in Clients : Len(rate_limit_store[c]) <= RATE_LIMIT_MAX_REQUESTS

\* a client whose list is full and whose latest call was rejected
C1_Witness ==
    \E c \in Clients :
        /\ Len(rate_limit_store[c]) = RATE_LIMIT_MAX_REQUESTS
        /\ log[c] # <<>>
        /\ ~Last(log[c]).ok

\* calls i .. i+10 of client c are 11 calls within 60 seconds, and no earlier
\* allowed call of c is still inside the window when call i is made
Burst(c, i) ==
    /\ i \in DOMAIN log[c]
    /\ i + RATE_LIMIT_MAX_REQUESTS \in DOMAIN log[c]
    /\ log[c][i + RATE_LIMIT_MAX_REQUESTS].t - log[c][i].t < RATE_LIMIT_WINDOW
    /\ \A k \in 1..(i - 1) :
          log[c][k].ok => log[c][i].t - log[c][k].t >= RATE_LIMIT_WINDOW

\* C2: when one client issues 11 requests within 60 seconds (starting from an
\* empty window), the first 10 checks allow and each records one timestamp
\* (the stored count goes 1, 2, .. 10), the 11th is rejected with 429 and
\* records nothing: the stored count stays at 10.
C2_EleventhRejected ==
    \A c \in Clients : \A i \in DOMAIN log[c] :
        Burst(c, i) =>
            /\ \A m \in 0..(RATE_LIMIT_MAX_REQUESTS - 1) :
                  /\ log[c][i + m].ok
                  /\ log[c][i + m].stored = m + 1
            /\ ~log[c][i + RATE_LIMIT_MAX_REQUESTS].ok
            /\ log[c][i + RATE_LIMIT_MAX_REQUESTS].stored = RATE_LIMIT_MAX_REQUESTS

\* a burst of 11 has been issued, the calls spread over two clock readings
C2_Witness ==
    \E c \in Clients : \E i \in DOMAIN log[c] :
        /\ Burst(c, i)
        /\ log[c][i + RATE_LIMIT_MAX_REQUESTS].t > log[c][i].t
        /\ Len(rate_limit_store[c]) = RATE_LIMIT_MAX_REQUESTS

\* the timestamps of the allowed calls of c that are inside the window at time t
AllowedInWindow(c, t) ==
    LET inside == SelectSeq(log[c], LAMBDA e : e.ok /\ t - e.t < RATE_LIMIT_WINDOW)
    IN  [k \in DOMAIN inside |-> inside[k].t]

\* C3: the per-client window map is safe under requests handled at the same
\* time.  check_rate_limit holds no await, so the calls of concurrent requests
\* are serialised by the event loop in any order, also at one clock reading:
\* (a) no update is lost: after any calls the list of a client is exactly the
\*     timestamps of its allowed calls inside the window of its latest call;
\* (b) for every allowed call, at most 10 allowed calls of that client
\*     (itself included) lie in the 60 seconds ending with it.
C3_ConcurrentSafe ==
    \A c \in Clients :
        /\ log[c] = <<>> => rate_limit_store[c] = <<>>
        /\ log[c] # <<>> =>
              rate_limit_store[c] = AllowedInWindow(c, Last(log[c]).t)
        /\ \A j \in DOMAIN log[c] :
              log[c][j].ok =>
                  Cardinality({i \in 1..j :
                      /\ log[c][i].ok
                      /\ log[c][j].t - log[c][i].t < RATE_LIMIT_WINDOW})
                    <= RATE_LIMIT_MAX_REQUESTS

\* both clients called at the same clock reading, one client was allowed
\* twice at that reading and is at its limit with timestamps of two readings
C3_Witness ==
    \E c \in Clients : \E d \in Clients \ {c} :
        /\ Len(rate_limit_store[c]) = RATE_LIMIT_MAX_REQUESTS
        /\ rate_limit_store[c][1] # Last(rate_limit_store[c])
        /\ \E i \in DOMAIN log[c] : \E j \in DOMAIN log[d] :
              /\ i + 1 \in DOMAIN log[c]
              /\ log[c][i].ok /\ log[c][i + 1].ok
              /\ log[c][i].t = log[c][i + 1].t
              /\ log[d][j].ok /\ log[d][j].t = log[c][i].t

\* C4: a rejection is retryable after window expiry: when a client whose
\* latest call was rejected calls again and more than 60 seconds have passed
\* since one of its stored timestamps was recorded, that timestamp is gone
\* from the list after the call and the call is allowed.
C4_RetryAfterExpiry ==
    [][\A c \in Clients :
          ( /\ RateLimitCall(c)
            /\ log[c] # <<>>
            /\ ~Last(log[c]).ok
            /\ \E k \in DOMAIN rate_limit_store[c] :
                  now - rate_limit_store[c][k] > RATE_LIMIT_WINDOW )
          => /\ Last(log'[c]).ok
             /\ \A k \in DOMAIN rate_limit_store[c] :
                   now - rate_limit_store[c][k] > RATE_LIMIT_WINDOW
                   => \A m \in DOMAIN rate_limit_store'[c] :
                         rate_limit_store'[c][m] # rate_limit_store[c][k]]_vars

\* a client was rejected and, more than 60 seconds after a stored timestamp,
\* allowed again
C4_Witness ==
    \E c \in Clients : \E i \in DOMAIN log[c] :
        /\ i + 1 \in DOMAIN log[c]
        /\ ~log[c][i].ok
        /\ log[c][i + 1].ok
        /\ \E k \in 1..i : log[c][k].ok /\ log[c][i + 1].t - log[c][k].t > RATE_LIMIT_WINDOW

----------------------------------------------------------------------------
(* SpecWebsite: validate_website on every bounded argument *)

\* the characters an argument is built from: a letter, a digit, the
\* separators of the pattern and a line break
UrlChars == {"a", "1", ".", ":", "/", "\n"}

Texts(chars, maxLen) == UNION {[1..k -> chars] : k \in 0..maxLen}

\* an optional scheme followed by any text of at most MaxUrlLen characters
WebsiteArguments ==
    {scheme \o body : scheme \in {<<>>, HTTP, HTTPS}, body \in Texts(UrlChars, MaxUrlLen)}

InitWebsite ==
    /\ rate_limit_store = InitStore
    /\ now = 0
    /\ log = [c \in Clients |-> <<>>]
    /\ req = [r \in Reqs |-> IdleReq]
    /\ website_in \in WebsiteArguments
    /\ website_out = NotCalled
    /\ NoParseCall
    /\ NoChunksCall

ValidateWebsiteCall ==
    /\ website_out = NotCalled
    /\ website_out' = validate_website(website_in)
    /\ UNCHANGED <<rate_limit_store, now, log, req, website_in,
                   completion_in, contacts_out, chunk_in, chunk_out>>

NextWebsite == ValidateWebsiteCall

SpecWebsite == InitWebsite /\ [][NextWebsite]_vars

\* C10: for every argument that lacks a scheme and matches the URL pattern
\* once "https://" is prefixed, validate_website returns the prefixed form,
\* "https://" followed by the argument.
C10_PrefixedFormReturned ==
    ( /\ website_out # NotCalled
      /\ ~HasScheme(website_in)
      /\ Matches(url_pattern, HTTPS \o website_in) )
    => website_out = Return(HTTPS \o website_in)

\* C11: for every argument, with or without a scheme, that does not match
\* the URL pattern and does not match it once "https://" is prefixed,
\* validate_website raises the validation error 422 and returns no value.
C11_NonMatchingRejected ==
    ( /\ website_out # NotCalled
      /\ ~Matches(url_pattern, website_in)
      /\ ~Matches(url_pattern, HTTPS \o website_in) )
    => website_out.raised = 422

----------------------------------------------------------------------------
(* SpecParse: extract_contact_info on every bounded completion *)

\* length of the texts a completion is drawn from
MaxTextLen == 5

\* the characters of a list of dicts, a blank and a digit
ParseChars == {"[", "]", "{", "}", " ", "1"}

\* the chat-completion call raised, or returned one of: any text of at most
\* MaxTextLen characters, a text of the endpoint's completions, a list of two
\* dicts, two lists, a dict holding a list, a list in prose, a number
ParseCompletions ==
    {Raised(<<>>)}
    \cup {Content(text) : text \in Texts(ParseChars, MaxTextLen)}
    \cup ExtractCompletions
    \cup {Content(<<"[","{","\"","a","\"",":","1","}",",","{","}","]">>),
          Content(<<"[","{","}","]","[","{","}","]">>),
          Content(<<"[","{","\"","a","\"",":","[","{","}","]","}","]">>),
          Content(<<"o","k",":"," ","["," ","{","\"","a","\"",":","\"","b","\"","}"," ","]"," ",".">>),
          Content(<<" ","\n","\t"," ">>),
          Content(<<"1","2">>)}

InitParse ==
    /\ rate_limit_store = InitStore
    /\ now = 0
    /\ log = [c \in Clients |-> <<>>]
    /\ req = [r \in Reqs |-> IdleReq]
    /\ website_in = <<>>
    /\ website_out = NotCalled
    /\ completion_in \in ParseCompletions
    /\ contacts_out = NotCalled
    /\ NoChunksCall

\* extract_contact_info has no path that raises: every exception of the
\* call and of the parse is caught (lines 133-135 and 164-176)
ExtractContactInfoCall ==
    /\ contacts_out = NotCalled
    /\ contacts_out' = Return(extract_contact_info(completion_in))
    /\ UNCHANGED <<rate_limit_store, now, log, req, website_in, website_out,
                   completion_in, chunk_in, chunk_out>>

NextParse == ExtractContactInfoCall

SpecParse == InitParse /\ [][NextParse]_vars

\* the text has no character other than white space
Blank(text) == AllIn(text, Space)

\* the first '[ {...} ]' substring of the text
FirstArrayText(text) ==
    LET found == Search(json_array_pattern, text)
    IN  Slice(text, found.start + 1, found.end)

\* C12: the contact-info parser is total: for every model output text it
\* returns a sequence and never raises; the sequence is empty when the text
\* is empty or blank, when the text holds no '[ {...} ]' substring, when
\* that substring does not decode, or when it decodes to something that is
\* not a list; otherwise it is the decoded list itself.
C12_ParserTotal ==
    (contacts_out # NotCalled /\ ~completion_in.raised)
        => LET text == completion_in.content
               decoded == json_loads(FirstArrayText(text))
           IN  /\ contacts_out.raised = 0
               /\ DOMAIN contacts_out.value = 1..Len(contacts_out.value)
               /\ contacts_out.value =
                    IF \/ Blank(text)
                       \/ ~Found(json_array_pattern, text)
                       \/ ~decoded.ok
                       \/ decoded.val.t # "arr"
                    THEN <<>>
                    ELSE decoded.val.v

\* the parser has returned the list of one dict decoded from the text
C12_Witness ==
    /\ contacts_out # NotCalled
    /\ completion_in = Content(<<"[","{","\"","v","a","l","u","e","\"",":","\"","a","@","b",".","i","o","\"","}","]">>)
    /\ contacts_out.raised = 0
    /\ Len(contacts_out.value) = 1
    /\ GetItem(contacts_out.value[1], <<"v","a","l","u","e">>).ok

----------------------------------------------------------------------------
(* SpecChunks: extract_contact_chunks on every bounded argument *)

\* number of pieces a page text is put together from
MaxPieces == 3
\* largest context_chars
MaxContext == 2

\* an email address, phone numbers in a local and a standard format, and
\* what may stand between and around them (a phone number followed by
\* "@b.io" is an email address that starts where the phone number does)
Pieces ==
    {<<"a","@","b",".","i","o">>,
     <<"5","5","5","-","1","2","3","4">>,
     <<"(","5","5","5",")","5","5","5","1","2","3","4">>,
     <<" ">>,
     <<"x">>,
     <<"@","b",".","i","o">>}

RECURSIVE Join(_)
Join(pieces) ==
    IF pieces = <<>> THEN <<>> ELSE Head(pieces) \o Join(Tail(pieces))

PageTexts == {Join(pieces) : pieces \in Texts(Pieces, MaxPieces)}

InitChunks ==
    /\ rate_limit_store = InitStore
    /\ now = 0
    /\ log = [c \in Clients |-> <<>>]
    /\ req = [r \in Reqs |-> IdleReq]
    /\ website_in = <<>>
    /\ website_out = NotCalled
    /\ NoParseCall
    /\ chunk_in \in [page_text : PageTexts, context_chars : 0..MaxContext]
    /\ chunk_out = NotCalled

ExtractContactChunksCall ==
    /\ chunk_out = NotCalled
    /\ chunk_out' = Return(extract_contact_chunks(chunk_in.page_text, chunk_in.context_chars))
    /\ UNCHANGED <<rate_limit_store, now, log, req, website_in, website_out,
                   completion_in, contacts_out, chunk_in>>

NextChunks == ExtractContactChunksCall

SpecChunks == InitChunks /\ [][NextChunks]_vars

\* the first matches of the two patterns in the text
FirstMatches(text) ==
    {Search(pattern, text) : pattern \in {q \in {email_pattern, phone_pattern} : Found(q, text)}}

\* those of the matches that start at the lowest offset
Lowest(matches) ==
    {m \in matches : \A other \in matches : m.start <= other.start}

\* sub occurs in text
Contains(text, sub) ==
    \E i \in 0..(Len(text) - Len(sub)) : Slice(text, i + 1, i + Len(sub)) = sub

\* C14: for every page text and context size c, extract_contact_chunks
\* returns None when neither pattern matches; otherwise it anchors on the
\* first email match or the first phone match, whichever starts at the lower
\* offset, and returns
\* pageText[max(0, anchorStart - c) : min(len(pageText), anchorEnd + c)]
\* trimmed, so the result contains the anchor and is at most
\* min(len(pageText), 2c + matchLength) long.
C14_WindowAroundFirstMatch ==
    chunk_out # NotCalled
        => LET text == chunk_in.page_text
               c == chunk_in.context_chars
               matches == FirstMatches(text)
           IN  IF matches = {}
               THEN chunk_out.value = None
               ELSE \E anchor \in Lowest(matches) :
                       LET from == Max(0, anchor.start - c)
                           to == Min(Len(text), anchor.end + c)
                           matched == Slice(text, anchor.start + 1, anchor.end)
                       IN  /\ chunk_out.value = Some(Strip(Slice(text, from + 1, to)))
                           /\ Contains(chunk_out.value.text, matched)
                           /\ Len(chunk_out.value.text)
                                <= Min(Len(text), 2 * c + Len(matched))

\* the window was cut around a phone number that starts before an email
\* address, and was trimmed
C14_Witness ==
    /\ chunk_out # NotCalled
    /\ Found(email_pattern, chunk_in.page_text)
    /\ Found(phone_pattern, chunk_in.page_text)
    /\ Search(phone_pattern, chunk_in.page_text).start
         < Search(email_pattern, chunk_in.page_text).start
    /\ chunk_in.context_chars > 0
    /\ chunk_out.value # None
    /\ Contains(chunk_out.value.text, <<"5","5","5","-","1","2","3","4">>)
    /\ ~Contains(chunk_out.value.text, <<"a","@","b",".","i","o">>)
    /\ Len(chunk_out.value.text) < 2 * chunk_in.context_chars + 8

----------------------------------------------------------------------------
(* Spec: requests running through get_contact_info.  The clock stands    *)
(* still here: the requests arrive within one rate-limit window (SpecRate *)
(* covers the expiry of the window).                                      *)

Init ==
    /\ rate_limit_store = InitStore
    /\ now = 0
    /\ log = [c \in Clients |-> <<>>]
    /\ req = [r \in Reqs |-> IdleReq]
    /\ website_in = <<>>
    /\ website_out = NotCalled
    /\ NoParseCall
    /\ NoChunksCall

Next ==
    \/ \E r \in Reqs : Start(r)
    \/ \E r \in Reqs : Resume(r)
    \/ \E r \in Reqs : Finish(r)

Spec == Init /\ [][Next]_vars

\* the handler of request r has answered
Answered(r) == req[r].pc = "done"

\* the payload of the JSON response of request r
Body(r) == req[r].resp.body[1]

\* the queries that a validator rejects
Rejected ==
    {query \in Queries :
        \/ validate_website(query[1]).raised # 0
        \/ validate_filer_info(query[2]).raised # 0
        \/ validate_resolution(query[3]).raised # 0}

\* how often the call named name was made for request r
Count(r, name) ==
    Cardinality({k \in DOMAIN req[r].calls : req[r].calls[k] = name})

\* C5: a PDF is composed and returned only for a request whose parsed contact
\* list holds at least one entry; a request whose parsed contact list is
\* empty makes no drafting call, composes no PDF and is answered with the
\* JSON payload.
C5_PdfOnlyWithContacts ==
    \A r \in Reqs :
        /\ (req[r].resp.kind = "pdf" \/ Count(r, "pdf") > 0)
              => /\ Count(r, "extract") = 1
                 /\ req[r].contacts # <<>>
        /\ (Answered(r) /\ Count(r, "extract") > 0 /\ req[r].contacts = <<>>)
              => /\ Count(r, "draft") = 0
                 /\ Count(r, "pdf") = 0
                 /\ req[r].resp.kind = "json"
                 /\ Body(r).contacts = <<>>
                 /\ Body(r).pdf_error = Absent

\* one request answered with a PDF, another answered with JSON after the
\* parser yielded nothing
C5_Witness ==
    \E r1, r2 \in Reqs :
        /\ req[r1].resp.kind = "pdf" /\ req[r1].contacts # <<>>
        /\ Answered(r2) /\ Count(r2, "extract") = 1 /\ req[r2].contacts = <<>>
        /\ req[r2].resp.kind = "json"

\* C6: a request that passed the rate limit and the validators and whose
\* crawl returned empty text is answered with JSON holding an empty contacts
\* list and the message 'No contact information found'; no completion call
\* is made, no PDF is composed, and the request recorded exactly one
\* timestamp for its client.
C6_EmptyCrawlShortCircuits ==
    \A r \in Reqs :
        (Answered(r) /\ req[r].page_text = Some(<<>>))
            => /\ req[r].resp.kind = "json"
               /\ req[r].resp.status = 200
               /\ Body(r).contacts = <<>>
               /\ Body(r).message = "No contact information found"
               /\ Body(r).pdf_error = Absent
               /\ req[r].calls = <<"crawl">>
               /\ req[r].failed = {}
               /\ req[r].recorded = 1
               /\ req[r].query \notin Rejected

\* a request answered after its crawl returned empty text
C6_Witness ==
    \E r \in Reqs :
        /\ Answered(r) /\ req[r].page_text = Some(<<>>)
        /\ req[r].resp.kind = "json"
        /\ Len(rate_limit_store[req[r].client]) >= 1

\* C7: a request that the rate limiter rejects, or whose website, filer_info
\* or resolution fails validation, is answered at once with 429 or 422
\* respectively, and makes no crawl call, no completion call and composes no
\* PDF.
C7_RejectionStopsPipeline ==
    \A r \in Reqs :
        (req[r].pc # "idle" /\ (req[r].recorded = 0 \/ req[r].query \in Rejected))
            => /\ Answered(r)
               /\ req[r].resp.kind = "error"
               /\ req[r].resp.status = (IF req[r].recorded = 0 THEN 429 ELSE 422)
               /\ req[r].calls = <<>>
               /\ req[r].failed = {}
               /\ req[r].page_text = None

\* one request rejected by the rate limiter and another by a validator
C7_Witness ==
    \E r1, r2 \in Reqs :
        /\ Answered(r1) /\ req[r1].recorded = 0 /\ req[r1].resp.status = 429
        /\ Answered(r2) /\ req[r2].recorded = 1 /\ req[r2].query \in Rejected
        /\ req[r2].resp.status = 422

\* C8: a failure of the crawl call or of a completion call (contact
\* extraction, drafting) is terminal for the request: the failing call is
\* made at most once, and the request is answered with JSON holding empty
\* contacts or with a 5xx, never with a PDF.
C8_CallFailureIsTerminal ==
    \A r \in Reqs :
        (Answered(r) /\ req[r].failed \cap {"crawl", "extract", "draft"} # {})
            => /\ \A name \in req[r].failed : Count(r, name) <= 1
               /\ req[r].resp.kind # "pdf"
               /\ \/ req[r].resp.kind = "error" /\ req[r].resp.status >= 500
                  \/ req[r].resp.kind = "json" /\ Body(r).contacts = <<>>

\* C9: when legal_doc_to_pdf fails for a request with contacts, the request
\* is answered with the JSON payload computed before (respondent, filer,
\* filer_info, reason, website and contacts unchanged) plus a pdf_error
\* string; it is answered neither with a 500 nor with a PDF.
C9_PdfFailureAbsorbed ==
    \A r \in Reqs :
        (Answered(r) /\ "pdf" \in req[r].failed)
            => /\ req[r].contacts # <<>>
               /\ req[r].resp.kind = "json"
               /\ req[r].resp.status = 200
               /\ Body(r).pdf_error # Absent
               /\ [Body(r) EXCEPT !.pdf_error = Absent]
                     = Payload(req[r], req[r].contacts, Absent, Body(r).timestamp)

\* a request answered after legal_doc_to_pdf raised
C9_Witness ==
    \E r \in Reqs :
        /\ Answered(r) /\ "pdf" \in req[r].failed
        /\ req[r].contacts # <<>>
        /\ req[r].resp.kind = "json"

\* C13: when the contact-window extractor finds neither an email nor a phone
\* match in the crawled page text (the window is None), the request is not
\* failed and is answered with the empty-contacts JSON: contacts is empty and
\* no PDF is composed.
C13_NoWindowDegrades ==
    \A r \in Reqs :
        ( /\ Answered(r)
          /\ req[r].page_text # None
          /\ req[r].page_text.text # <<>>
          /\ req[r].page_chunk = None )
            => /\ req[r].resp.kind = "json"
               /\ req[r].resp.status = 200
               /\ Body(r).contacts = <<>>
               /\ Count(r, "pdf") = 0

\* the handler of request r has answered with the rate-limit error
RateLimited(r) ==
    Answered(r) /\ req[r].resp.kind = "error" /\ req[r].resp.status = 429

\* C15: the rate-limit check runs before the validators: a request that is
\* not rate-limited records exactly one timestamp for its client when it
\* enters the handler, whatever its parameters, and nothing the handler does
\* afterwards (422, empty-crawl JSON, contacts JSON, PDF, 500) touches the
\* store; so a request rejected by a validator has used one of the client's
\* 10 slots.
C15_SlotUsedBeforeValidation ==
    /\ [](\A r \in Reqs :
            (req[r].pc # "idle" /\ ~RateLimited(r)) => req[r].recorded = 1)
    /\ [][\A r \in Reqs :
            LET c == req'[r].client
                kept == CleanOld(rate_limit_store[c], now)
            IN  /\ (req[r].pc = "idle" /\ req'[r].pc # "idle" /\ ~LimitExceeded(kept))
                      => /\ rate_limit_store'[c] = Append(kept, now)
                         /\ req'[r].recorded = 1
                         /\ ~RateLimited(r)'
                /\ (req[r].pc # "idle" /\ req'[r] # req[r])
                      => /\ rate_limit_store' = rate_limit_store
                         /\ req'[r].pc # "idle" => req'[r].recorded = req[r].recorded
       ]_vars

\* a request rejected by a validator holds the last of its client's 10 slots
C15_Witness ==
    \E r \in Reqs :
        /\ Answered(r) /\ req[r].resp.status = 422
        /\ req[r].query \in Rejected
        /\ req[r].recorded = 1
        /\ Len(rate_limit_store[req[r].client]) = RATE_LIMIT_MAX_REQUESTS

====
